---- MODULE Spec2Model ----
(***************************************************************************)
(* A model of the RPN proposal post-processing of                         *)
(* maskrcnn_benchmark/modeling/rpn/inference.py (RPNPostProcessor) and of *)
(* the cross-process accumulation of predictions of                       *)
(* maskrcnn_benchmark/engine/inference.py, and of the checkpoints of the  *)
(* training loop of maskrcnn_benchmark/engine/trainer.py (do_train).      *)
(*                                                                         *)
(* Tensors are modelled flattened: a per-level objectness tensor is a      *)
(* sequence over the N images of sequences over the A*H*W anchors.  Scores *)
(* are in thousandths (1.0 is 1000).  A regression delta <<dx,dy,dw,dh>>   *)
(* carries dx, dy as multiples of the anchor size and dw, dh as base-2     *)
(* logarithms of the scale factor, so that decoding is exact on integers.  *)
(*                                                                         *)
(* The tensor saver (get_tensor_saver().save) is a debug sink: its writes  *)
(* are not part of the state.  The expressions the post-processor itself   *)
(* evaluates to build a dump (topk_idx[1,:]) are modelled.                 *)
(***************************************************************************)
EXTENDS Integers, Sequences, FiniteSets, TLC

VARIABLES
    cfg,            \* the RPNPostProcessor's fields (self.*), fixed at construction
    N,              \* batch size of the call to forward
    num_levels,     \* len(objectness) in forward
    targets,        \* forward's targets argument: "None" or one list of boxes per image
    objectness,     \* the objectness logits of the levels processed so far
    box_regression, \* the regression deltas of the levels processed so far
    topk_idx,       \* per processed level, per image: the result of objectness.topk
    sampled_boxes,  \* forward's sampled_boxes: per processed level, per image, a box list
    selected,       \* forward's boxlists after cat_boxlist and select_over_all_levels
    boxlists,       \* the value forward returns
    pc              \* where forward is: "levels", "aggregate", "gt", "done", "error"

rpnVars == <<cfg, N, num_levels, targets, objectness, box_regression,
             topk_idx, sampled_boxes, selected, boxlists, pc>>

VARIABLES
    output_folder,  \* whether inference was given an output folder
    dataset_len,    \* len(data_loader.dataset)
    local_pred,     \* per process: the dict compute_on_dataset returned
    gathered,       \* per process: what it has submitted to all_gather
    ret,            \* per process: what _accumulate_predictions_from_multiple_gpus returned
    warned,         \* whether the warning of a non-contiguous set was logged
    saved,          \* per process: whether it wrote predictions.pth
    evaluated,      \* per process: whether it ran evaluate
    epc             \* per process: where it is in inference

engVars == <<output_folder, dataset_len, local_pred, gathered, ret, warned, saved, evaluated, epc>>

VARIABLES
    nms             \* a call of boxlist_nms on one box list with two thresholds

nmsVars == <<nms>>

VARIABLES
    checkpoint_period, \* do_train's checkpoint_period argument
    loader,            \* the kind of data loader do_train is given
    max_iter,          \* len(data_loader)
    start_iter,        \* arguments["iteration"] when do_train is called
    iteration,         \* arguments["iteration"]
    yielded,           \* the number of batches the data loader has yielded
    checkpoints,       \* the calls of checkpointer.save, in order
    tpc                \* where do_train is: "loop", "done", "ZeroDivisionError"

trainVars == <<checkpoint_period, loader, max_iter, start_iter, iteration, yielded,
               checkpoints, tpc>>

VARIABLES
    shape_call,     \* the shapes of the arguments of a call of forward
    shape_levels,   \* per level processed: the number of per-image box lists built
    shape_outcome   \* how the call stands: running, raised (at a line) or returned

shapeVars == <<shape_call, shape_levels, shape_outcome>>

vars == <<rpnVars, engVars, nmsVars, trainVars, shapeVars>>

-----------------------------------------------------------------------------
(* Bounds of the model *)

\* the largest value of the budgets pre_nms_top_n, post_nms_top_n, fpn_post_nms_top_n
MaxTopN == 3

\* the number of processes of the distributed job
NumProcs == 2

\* the largest image id of the dataset
MaxImageId == 2

\* the largest box list handed to boxlist_nms on its own
MaxNmsBoxes == 4

\* the largest len(data_loader), starting iteration and checkpoint period of a training
MaxIter == 4

\* the largest batch size of an objectness tensor whose shapes are followed
MaxBatch == 2

-----------------------------------------------------------------------------
(* Helpers *)

Min(a, b) == IF a <= b THEN a ELSE b
Max(a, b) == IF a >= b THEN a ELSE b

Range(s) == {s[i] : i \in DOMAIN s}

RECURSIVE Pow2(_)
Pow2(n) == IF n = 0 THEN 1 ELSE 2 * Pow2(n - 1)

RECURSIVE Flatten(_)
Flatten(ss) == IF ss = <<>> THEN <<>> ELSE Head(ss) \o Flatten(Tail(ss))

RECURSIVE SumLen(_)
SumLen(ss) == IF ss = <<>> THEN 0 ELSE Len(Head(ss)) + SumLen(Tail(ss))

\* the subsequence of s at the positions p with keep[p]
RECURSIVE SelectMask(_, _)
SelectMask(s, keep) ==
    IF s = <<>> THEN <<>>
    ELSE (IF Head(keep) THEN <<Head(s)>> ELSE <<>>) \o SelectMask(Tail(s), Tail(keep))

-----------------------------------------------------------------------------
(* Inputs *)

\* the size (width, height) recorded in every anchor list
ImageShape == <<16, 16>>

\* the anchors of a level: squares of side 4 * level on a grid of that stride
Anchor(level, i) ==
    LET side == 4 * level
        perRow == ImageShape[1] \div side
        x1 == side * ((i - 1) % perRow)
        y1 == side * ((i - 1) \div perRow)
    IN  <<x1, y1, x1 + side, y1 + side>>

\* objectness.sigmoid(), in thousandths
Sigmoid(x) ==
    CASE x = -2 -> 119
      [] x = -1 -> 269
      [] x = 0 -> 500
      [] x = 1 -> 731
      [] x = 2 -> 881

\* torch.ones: the objectness given to a ground-truth box
ObjectnessOne == 1000

-----------------------------------------------------------------------------
(* Box collections (maskrcnn_benchmark.structures, modelled from the design      *)
(* document).  A box list is a sequence of entries; an entry holds its box in    *)
(* xyxy mode and its fields.  img, level and idx record where an entry was made: *)
(* the image, the level and the anchor index (level 0: a ground-truth box).      *)

Entry(bbox, fields, img, level, idx) ==
    [bbox |-> bbox, fields |-> fields, img |-> img, level |-> level, idx |-> idx]

Width(box) == box[3] - box[1]
Height(box) == box[4] - box[2]
Area(box) == Width(box) * Height(box)

\* BoxCoder.decode's bound on dw and dh, ln(1000/16): in base-2 steps, every
\* step above 5 is clamped to the factor 62.5
ClampedScale(size, d) ==
    IF d > 5 THEN (125 * size) \div 2
    ELSE IF d >= 0 THEN size * Pow2(d)
    ELSE size \div Pow2(0 - d)

\* BoxCoder.decode with weights (1, 1, 1, 1): the box of centre
\* ctr + d * size and size exp(dw) * size, in xyxy mode
Decode(delta, ref) ==
    LET w == Width(ref)
        h == Height(ref)
        cx == ref[1] + (w \div 2) + delta[1] * w
        cy == ref[2] + (h \div 2) + delta[2] * h
        pw == ClampedScale(w, delta[3])
        ph == ClampedScale(h, delta[4])
    IN  <<cx - (pw \div 2), cy - (ph \div 2), cx + (pw \div 2), cy + (ph \div 2)>>

Clamp(x, lo, hi) == Max(lo, Min(x, hi))

ClipBox(box, shape) ==
    <<Clamp(box[1], 0, shape[1]), Clamp(box[2], 0, shape[2]),
      Clamp(box[3], 0, shape[1]), Clamp(box[4], 0, shape[2])>>

\* BoxList.clip_to_image(remove_empty=False)
ClipToImage(boxlist, shape) ==
    [j \in DOMAIN boxlist |-> [boxlist[j] EXCEPT !.bbox = ClipBox(@, shape)]]

\* remove_small_boxes: keep the boxes of width and height at least min_size
RemoveSmallBoxes(boxlist, min_size) ==
    SelectSeq(boxlist, LAMBDA e : Width(e.bbox) >= min_size /\ Height(e.bbox) >= min_size)

Intersection(a, b) ==
    Max(0, Min(a[3], b[3]) - Max(a[1], b[1])) * Max(0, Min(a[4], b[4]) - Max(a[2], b[2]))

\* IoU(a, b) <= t / 10; a zero-area box has IoU 0 with everything
IoULeq(a, b, t) ==
    LET inter == Intersection(a, b)
        union == Area(a) + Area(b) - inter
    IN  union = 0 \/ 10 * inter <= t * union

\* the indices of scores by score descending, ties by index ascending
RECURSIVE SortDesc(_, _)
SortDesc(scores, remaining) ==
    IF remaining = {} THEN <<>>
    ELSE LET best == CHOOSE i \in remaining : \A j \in remaining :
                        scores[i] > scores[j] \/ (scores[i] = scores[j] /\ i <= j)
         IN  <<best>> \o SortDesc(scores, remaining \ {best})

\* greedy NMS: accept the next highest-ranked box whose IoU with every accepted
\* box is at most t; stop after k acceptances
RECURSIVE NmsGreedy(_, _, _, _, _)
NmsGreedy(boxlist, order, t, k, kept) ==
    IF order = <<>> \/ Len(kept) >= k THEN kept
    ELSE LET c == Head(order)
             ok == \A j \in Range(kept) : IoULeq(boxlist[j].bbox, boxlist[c].bbox, t)
         IN  NmsGreedy(boxlist, Tail(order), t, k, IF ok THEN Append(kept, c) ELSE kept)

\* the indices boxlist_nms keeps, in descending order of the objectness
NmsKeep(boxlist, t, k) ==
    NmsGreedy(boxlist,
              SortDesc([j \in DOMAIN boxlist |-> boxlist[j].fields.objectness],
                       DOMAIN boxlist),
              t, k, <<>>)

\* boxlist_nms(boxlist, nms_thresh, max_proposals, score_field="objectness")
BoxlistNms(boxlist, t, k) ==
    LET keep == NmsKeep(boxlist, t, k)
    IN  [j \in DOMAIN keep |-> boxlist[keep[j]]]

\* cat_boxlist: the concatenation of the box lists of a tuple
CatBoxlist(lists) == Flatten(lists)

-----------------------------------------------------------------------------
(* torch.topk(values, k, sorted=True): the sequences of k distinct indices of    *)
(* the k largest values, in descending order of value.  torch gives no order     *)
(* among equal values, so every such sequence is a possible result.              *)

TopK(values, k) ==
    {s \in [1..k -> DOMAIN values] :
        /\ \A a, b \in 1..k : a < b => s[a] # s[b] /\ values[s[a]] >= values[s[b]]
        /\ \A i \in DOMAIN values : \A a \in 1..k :
              i \notin Range(s) => values[i] <= values[s[a]]}

-----------------------------------------------------------------------------
(* RPNPostProcessor.forward_for_single_feature_map *)

\* a changed PreNmsTopN: the budget is not applied
PreNmsTopN_NoBudget(num_anchors) == num_anchors

\* pre_nms_top_n = min(self.pre_nms_top_n, num_anchors)
PreNmsTopN(num_anchors) == Min(cfg.pre_nms_top_n, num_anchors)

\* objectness.sigmoid() of one image's row
SigmoidRow(o_i) == [a \in DOMAIN o_i |-> Sigmoid(o_i[a])]

\* the values objectness.topk returns beside topk_idx
GatherScores(o_i, idx_i) == [j \in DOMAIN idx_i |-> Sigmoid(o_i[idx_i[j]])]

\* a changed GatherRegression: the deltas are taken in anchor order
GatherRegression_NotGathered(b_i, idx_i) == [j \in DOMAIN idx_i |-> b_i[j]]

\* box_regression[batch_idx, topk_idx]
GatherRegression(b_i, idx_i) == [j \in DOMAIN idx_i |-> b_i[idx_i[j]]]

\* concat_anchors.reshape(N, -1, 4)[batch_idx, topk_idx]
GatherAnchors(level, idx_i) == [j \in DOMAIN idx_i |-> Anchor(level, idx_i[j])]

\* BoxList(proposal, im_shape) with the field objectness, of image i
DecodedBoxlist(level, i, o_i, b_i, idx_i) ==
    LET score == GatherScores(o_i, idx_i)
        deltas == GatherRegression(b_i, idx_i)
        refs == GatherAnchors(level, idx_i)
    IN  [j \in DOMAIN idx_i |->
            Entry(Decode(deltas[j], refs[j]), [objectness |-> score[j]],
                  i, level, idx_i[j])]

\* a changed CallBoxlistNms: max_proposals is not passed (no limit)
CallBoxlistNms_NoLimit(boxlist, nms_thresh, post_nms_top_n) ==
    BoxlistNms(boxlist, nms_thresh, Len(boxlist))

\* boxlist_nms(boxlist, self.nms_thresh, max_proposals=self.post_nms_top_n,
\*             score_field="objectness")
CallBoxlistNms(boxlist, nms_thresh, post_nms_top_n) ==
    BoxlistNms(boxlist, nms_thresh, post_nms_top_n)

\* a changed LevelBoxlist: NMS runs before the small boxes are removed
LevelBoxlist_NmsFirst(boxlist) ==
    RemoveSmallBoxes(CallBoxlistNms(ClipToImage(boxlist, ImageShape),
                                    cfg.nms_thresh, cfg.post_nms_top_n),
                     cfg.min_size)

\* the body of the loop over the images: clip, remove the small boxes, NMS
LevelBoxlist(boxlist) ==
    CallBoxlistNms(RemoveSmallBoxes(ClipToImage(boxlist, ImageShape), cfg.min_size),
                   cfg.nms_thresh, cfg.post_nms_top_n)

\* whether the dumps of topk_idx[0,:] and topk_idx[1,:] can be built
TopkDumpOk(idx) == Len(idx) >= 2

\* the function's result for the topk result idx: raised (an IndexError) or
\* the list of the images' box lists
ForwardForSingleFeatureMap(level, o, b, idx) ==
    IF ~TopkDumpOk(idx)
    THEN [raised |-> TRUE, result |-> <<>>]
    ELSE [raised |-> FALSE,
          result |-> [i \in DOMAIN o |->
                        LevelBoxlist(DecodedBoxlist(level, i, o[i], b[i], idx[i]))]]

-----------------------------------------------------------------------------
(* RPNPostProcessor.select_over_all_levels: the results it can give (one per     *)
(* result of torch.topk)                                                         *)

ObjectnessOf(boxlist) == [j \in DOMAIN boxlist |-> boxlist[j].fields.objectness]

\* a changed FpnPostNmsTopN: the budget is not applied
FpnPostNmsTopN_NoBudget(n) == n

\* post_nms_top_n = min(self.fpn_post_nms_top_n, len(objectness))
FpnPostNmsTopN(n) == Min(cfg.fpn_post_nms_top_n, n)

\* a changed SplitMask: every image reads the mask from its start
SplitMask_NoOffset(mask, bl, i) == [j \in 1..Len(bl[i]) |-> mask[j]]

\* inds_mask.split(box_sizes): the part of the mask that is image i's
SplitMask(mask, bl, i) ==
    LET before == SumLen(SubSeq(bl, 1, i - 1))
    IN  [j \in 1..Len(bl[i]) |-> mask[before + j]]

\* the branch of training with fpn_post_nms_per_batch
SelectPerBatch(bl) ==
    LET obj == ObjectnessOf(Flatten(bl))
    IN  {[i \in DOMAIN bl |->
            SelectMask(bl[i], SplitMask([p \in DOMAIN obj |-> p \in Range(inds)], bl, i))] :
         inds \in TopK(obj, FpnPostNmsTopN(Len(obj)))}

\* the other branch: for each image, boxlists[i][inds_sorted]
SelectOneImage(boxlist) ==
    {[j \in DOMAIN inds |-> boxlist[inds[j]]] :
        inds \in TopK(ObjectnessOf(boxlist), FpnPostNmsTopN(Len(boxlist)))}

SelectPerImage(bl) ==
    {r \in [DOMAIN bl -> UNION {SelectOneImage(bl[i]) : i \in DOMAIN bl}] :
        \A i \in DOMAIN bl : r[i] \in SelectOneImage(bl[i])}

\* a changed PerBatchMode: fpn_post_nms_per_batch is not read
PerBatchMode_IgnoresFlag == cfg.training

\* if self.training and self.fpn_post_nms_per_batch
PerBatchMode == cfg.training /\ cfg.fpn_post_nms_per_batch

SelectOverAllLevels(bl) ==
    IF PerBatchMode THEN SelectPerBatch(bl) ELSE SelectPerImage(bl)

-----------------------------------------------------------------------------
(* RPNPostProcessor.add_gt_proposals *)

\* target.copy_with_fields([]) and add_field("objectness", torch.ones(...))
GtBoxes(target, i) ==
    [j \in DOMAIN target |->
        Entry(target[j].bbox, [objectness |-> ObjectnessOne], i, 0, j)]

AddGtProposals(proposals, tgts) ==
    [i \in 1..Min(Len(proposals), Len(tgts)) |->
        CatBoxlist(<<proposals[i], GtBoxes(tgts[i], i)>>)]

\* a changed AppendsGt: self.training is not read
AppendsGt_IgnoresTraining == targets.given

\* if self.training and targets is not None
AppendsGt == cfg.training /\ targets.given

-----------------------------------------------------------------------------
(* RPNPostProcessor.forward *)

\* boxlists = [cat_boxlist(boxlist) for boxlist in zip(*sampled_boxes)]
CatLevels(sampled) ==
    [i \in 1..N |-> CatBoxlist([l \in DOMAIN sampled |-> sampled[l][i]])]

\* one turn of the loop over the levels, the level's tensors drawn from the rows
ForwardLevel(LogitRows, DeltaRows) ==
    /\ pc = "levels"
    /\ Len(objectness) < num_levels
    /\ \E o \in [1..N -> LogitRows[Len(objectness) + 1]],
          b \in [1..N -> DeltaRows[Len(objectness) + 1]] :
         LET level == Len(objectness) + 1
             k == PreNmsTopN(Len(o[1]))
         IN  \E idx \in [1..N -> UNION {TopK(SigmoidRow(o[i]), k) : i \in 1..N}] :
                /\ \A i \in 1..N : idx[i] \in TopK(SigmoidRow(o[i]), k)
                /\ objectness' = Append(objectness, o)
                /\ box_regression' = Append(box_regression, b)
                /\ topk_idx' = Append(topk_idx, idx)
                /\ LET r == ForwardForSingleFeatureMap(level, o, b, idx)
                   IN  IF r.raised
                       THEN pc' = "error" /\ UNCHANGED sampled_boxes
                       ELSE /\ sampled_boxes' = Append(sampled_boxes, r.result)
                            /\ pc' = IF level = num_levels THEN "aggregate" ELSE "levels"
    /\ UNCHANGED <<cfg, N, num_levels, targets, selected, boxlists>>
    /\ UNCHANGED <<engVars, nmsVars, trainVars, shapeVars>>

\* cat_boxlist over the levels, then select_over_all_levels when num_levels > 1
Aggregate ==
    /\ pc = "aggregate"
    /\ LET bl == CatLevels(sampled_boxes)
       IN  IF num_levels > 1
           THEN \E r \in SelectOverAllLevels(bl) : selected' = r
           ELSE selected' = bl
    /\ pc' = "gt"
    /\ UNCHANGED <<cfg, N, num_levels, targets, objectness, box_regression,
                   topk_idx, sampled_boxes, boxlists>>
    /\ UNCHANGED <<engVars, nmsVars, trainVars, shapeVars>>

\* append the ground-truth boxes, and return
ReturnBoxlists ==
    /\ pc = "gt"
    /\ boxlists' = IF AppendsGt THEN AddGtProposals(selected, targets.lists) ELSE selected
    /\ pc' = "done"
    /\ UNCHANGED <<cfg, N, num_levels, targets, objectness, box_regression,
                   topk_idx, sampled_boxes, selected>>
    /\ UNCHANGED <<engVars, nmsVars, trainVars, shapeVars>>

-----------------------------------------------------------------------------
(* engine/inference.py: inference and _accumulate_predictions_from_multiple_gpus, *)
(* run by every process of the job.  The processes are their ranks; all_gather,   *)
(* synchronize and is_main_process (utils/comm.py) are modelled from the design   *)
(* document: a barrier, and rank 0.                                                *)

Procs == 0..(NumProcs - 1)
ImageIds == 0..MaxImageId

IsMainProcess(p) == p = 0

NoData == [sent |-> FALSE, data |-> <<>>]
NoReturn == [returned |-> FALSE, none |-> TRUE, predictions |-> <<>>]

\* all_gather has every process's data
AllSubmitted == \A q \in Procs : gathered[q].sent

\* all_gather's result: the processes' data in rank order
AllPredictions == [r \in 1..NumProcs |-> gathered[r - 1].data]

\* predictions = {}; for p in all_predictions: predictions.update(p)
RECURSIVE MergeDicts(_, _)
MergeDicts(dicts, acc) ==
    IF dicts = <<>> THEN acc
    ELSE LET d == Head(dicts)
         IN  MergeDicts(Tail(dicts),
                        [i \in (DOMAIN acc) \cup (DOMAIN d) |->
                            IF i \in DOMAIN d THEN d[i] ELSE acc[i]])

\* list(sorted(predictions.keys()))
RECURSIVE SortedIds(_)
SortedIds(ids) ==
    IF ids = {} THEN <<>>
    ELSE LET least == CHOOSE i \in ids : \A j \in ids : i <= j
         IN  <<least>> \o SortedIds(ids \ {least})

\* if len(image_ids) != image_ids[-1] + 1
NotContiguous(image_ids) == Len(image_ids) # image_ids[Len(image_ids)] + 1

\* a changed AccumulateReturnsNone: the test is inverted
AccumulateReturnsNone_Inverted(p) == IsMainProcess(p)

\* if not is_main_process(): return  (in _accumulate_predictions_from_multiple_gpus)
AccumulateReturnsNone(p) == ~IsMainProcess(p)

\* if not is_main_process(): return  (in inference)
InferenceReturnsEarly(p) == ~IsMainProcess(p)

\* compute_on_dataset: the process's loader yields some images of the dataset
ComputeOnDataset(p) ==
    /\ epc[p] = "compute"
    /\ \E ids \in SUBSET (ImageIds \cap (0..(dataset_len - 1))) :
          local_pred' = [local_pred EXCEPT ![p] = [i \in ids |-> p]]
    /\ epc' = [epc EXCEPT ![p] = "synchronize"]
    /\ UNCHANGED <<output_folder, dataset_len, gathered, ret, warned, saved, evaluated>>
    /\ UNCHANGED <<rpnVars, nmsVars, trainVars, shapeVars>>

\* total_time * num_devices / len(dataset), in the log of the run time
TimePerImageRaises == dataset_len = 0

\* synchronize(): wait for all processes to complete; then the log of the run time
Synchronize(p) ==
    /\ epc[p] = "synchronize"
    /\ \A q \in Procs : epc[q] # "compute"
    /\ epc' = [epc EXCEPT ![p] = IF TimePerImageRaises THEN "ZeroDivisionError"
                                 ELSE "accumulate"]
    /\ UNCHANGED <<output_folder, dataset_len, local_pred, gathered, ret, warned, saved, evaluated>>
    /\ UNCHANGED <<rpnVars, nmsVars, trainVars, shapeVars>>

\* all_gather(predictions_per_gpu): hand in the local results, then wait
AllGatherSubmit(p) ==
    /\ epc[p] = "accumulate"
    /\ gathered' = [gathered EXCEPT ![p] = [sent |-> TRUE, data |-> local_pred[p]]]
    /\ epc' = [epc EXCEPT ![p] = "all_gather"]
    /\ UNCHANGED <<output_folder, dataset_len, local_pred, ret, warned, saved, evaluated>>
    /\ UNCHANGED <<rpnVars, nmsVars, trainVars, shapeVars>>

\* all_gather returns; the rest of _accumulate_predictions_from_multiple_gpus
Accumulate(p) ==
    /\ epc[p] = "all_gather"
    /\ AllSubmitted
    /\ IF AccumulateReturnsNone(p)
       THEN /\ ret' = [ret EXCEPT ![p] = [returned |-> TRUE, none |-> TRUE,
                                          predictions |-> <<>>]]
            /\ epc' = [epc EXCEPT ![p] = "accumulated"]
            /\ UNCHANGED warned
       ELSE LET predictions == MergeDicts(AllPredictions, <<>>)
                image_ids == SortedIds(DOMAIN predictions)
            IN  IF image_ids = <<>>
                THEN \* image_ids[-1] raises an IndexError
                     /\ epc' = [epc EXCEPT ![p] = "IndexError"]
                     /\ UNCHANGED <<ret, warned>>
                ELSE /\ warned' = NotContiguous(image_ids)
                     /\ ret' = [ret EXCEPT ![p] =
                                  [returned |-> TRUE, none |-> FALSE,
                                   predictions |->
                                      [j \in DOMAIN image_ids |->
                                          [id |-> image_ids[j],
                                           by |-> predictions[image_ids[j]]]]]]
                     /\ epc' = [epc EXCEPT ![p] = "accumulated"]
    /\ UNCHANGED <<output_folder, dataset_len, local_pred, gathered, saved, evaluated>>
    /\ UNCHANGED <<rpnVars, nmsVars, trainVars, shapeVars>>

\* the end of inference: only the main process saves and evaluates
InferenceReturn(p) ==
    /\ epc[p] = "accumulated"
    /\ IF InferenceReturnsEarly(p)
       THEN UNCHANGED <<saved, evaluated>>
       ELSE /\ saved' = [saved EXCEPT ![p] = output_folder]
            /\ evaluated' = [evaluated EXCEPT ![p] = TRUE]
    /\ epc' = [epc EXCEPT ![p] = "returned"]
    /\ UNCHANGED <<output_folder, dataset_len, local_pred, gathered, ret, warned>>
    /\ UNCHANGED <<rpnVars, nmsVars, trainVars, shapeVars>>

EngIdle ==
    /\ local_pred = [p \in Procs |-> <<>>]
    /\ gathered = [p \in Procs |-> NoData]
    /\ ret = [p \in Procs |-> NoReturn]
    /\ warned = FALSE
    /\ saved = [p \in Procs |-> FALSE]
    /\ evaluated = [p \in Procs |-> FALSE]

-----------------------------------------------------------------------------
(* The calls of forward that are explored *)

Zero == <<0, 0, 0, 0>>
Shrink == <<0, 0, -1, -1>>
Grow == <<0, 0, 1, 1>>
ShiftLeft == <<-1, 0, 0, 0>>
ShiftFarLeft == <<-2, 0, 0, 0>>

\* the ground-truth boxes of image i, with the field labels
TargetOf(i) ==
    IF i = 1 THEN <<[bbox |-> <<2, 2, 10, 10>>, fields |-> [labels |-> 1]]>>
    ELSE <<[bbox |-> <<0, 0, 6, 6>>, fields |-> [labels |-> 2]],
           [bbox |-> <<8, 8, 12, 16>>, fields |-> [labels |-> 1]]>>

TargetChoices(n) ==
    {[given |-> FALSE, lists |-> <<>>],
     [given |-> TRUE, lists |-> [i \in 1..n |-> TargetOf(i)]]}

\* per level, the rows (one image's logits, one image's deltas) a call can hold:
\* level 1 has two anchors, level 2 has one
FwdLogitRows == <<{<<1, 0>>, <<-1, 0>>, <<0, 0>>}, {<<1>>, <<0>>}>>
FwdDeltaRows == <<{<<Zero, Zero>>, <<Shrink, Zero>>}, {<<Zero>>}>>

CfgForward ==
    [training : BOOLEAN, fpn_post_nms_per_batch : BOOLEAN,
     pre_nms_top_n : {2}, post_nms_top_n : {2}, nms_thresh : {7}, min_size : {3},
     fpn_post_nms_top_n : 1..MaxTopN]

InitCall(Cfgs, Ns, Ls) ==
    /\ cfg \in Cfgs
    /\ N \in Ns
    /\ num_levels \in Ls
    /\ targets \in TargetChoices(N)
    /\ objectness = <<>>
    /\ box_regression = <<>>
    /\ topk_idx = <<>>
    /\ sampled_boxes = <<>>
    /\ selected = <<>>
    /\ boxlists = <<>>
    /\ pc = "levels"

\* no call of forward followed by its shapes
ShapeIdle ==
    /\ shape_call = [levels |-> <<>>, anchors_N |-> 0, pre_nms_top_n |-> 0]
    /\ shape_levels = <<>>
    /\ shape_outcome = [kind |-> "idle", line |-> 0, images |-> 0]

\* no call of do_train
TrainIdle ==
    /\ checkpoint_period = 1
    /\ loader = "sized"
    /\ max_iter = 0
    /\ start_iter = 0
    /\ iteration = 0
    /\ yielded = 0
    /\ checkpoints = <<>>
    /\ tpc = "idle"

\* no call of boxlist_nms on its own
NmsIdle == nms = [called |-> FALSE]

\* no call of forward
RpnIdle ==
    /\ cfg = [training |-> FALSE]
    /\ N = 0
    /\ num_levels = 0
    /\ targets = [given |-> FALSE, lists |-> <<>>]
    /\ objectness = <<>>
    /\ box_regression = <<>>
    /\ topk_idx = <<>>
    /\ sampled_boxes = <<>>
    /\ selected = <<>>
    /\ boxlists = <<>>
    /\ pc = "idle"

Init ==
    /\ InitCall(CfgForward, {1, 2}, {1, 2})
    /\ EngIdle
    /\ output_folder = FALSE
    /\ dataset_len = 0
    /\ epc = [p \in Procs |-> "idle"]
    /\ NmsIdle
    /\ TrainIdle
    /\ ShapeIdle

Next ==
    \/ ForwardLevel(FwdLogitRows, FwdDeltaRows)
    \/ Aggregate
    \/ ReturnBoxlists

Spec == Init /\ [][Next]_vars

\* one level alone: the calls of forward_for_single_feature_map, on four anchors
LvlLogitRows == <<{<<2, -2, 1, -1>>, <<0, 1, 0, -1>>, <<1, 1, -1, 0>>}>>
LvlDeltaRows ==
    <<{<<Zero, Zero, Zero, Zero>>,
       <<Shrink, ShiftLeft, Zero, Zero>>,
       <<Zero, ShiftLeft, Grow, ShiftFarLeft>>,
       <<ShiftFarLeft, Zero, Zero, Shrink>>}>>

CfgLevel ==
    [training : {FALSE}, fpn_post_nms_per_batch : {TRUE},
     pre_nms_top_n : 1..(MaxTopN + 1), post_nms_top_n : 1..MaxTopN,
     nms_thresh : {2, 7}, min_size : {0, 3},
     fpn_post_nms_top_n : {MaxTopN}]

InitLevel ==
    /\ InitCall(CfgLevel, {1, 2}, {1})
    /\ EngIdle
    /\ output_folder = FALSE
    /\ dataset_len = 0
    /\ epc = [p \in Procs |-> "idle"]
    /\ NmsIdle
    /\ TrainIdle
    /\ ShapeIdle

NextLevel == ForwardLevel(LvlLogitRows, LvlDeltaRows)

SpecLevel == InitLevel /\ [][NextLevel]_vars

\* the processes of a distributed inference
InitGather ==
    /\ RpnIdle
    /\ EngIdle
    /\ output_folder \in BOOLEAN
    /\ dataset_len \in 0..(MaxImageId + 1)
    /\ epc = [p \in Procs |-> "compute"]
    /\ NmsIdle
    /\ TrainIdle
    /\ ShapeIdle

NextGather ==
    \E p \in Procs :
        \/ ComputeOnDataset(p)
        \/ Synchronize(p)
        \/ AllGatherSubmit(p)
        \/ Accumulate(p)
        \/ InferenceReturn(p)

SpecGather == InitGather /\ [][NextGather]_vars

\* boxlist_nms on its own: one box list of the decoder's image, run with the
\* decoder's call under a smaller and a larger threshold
NmsCatalog ==
    {<<4, 0, 12, 8>>, <<4, 4, 12, 12>>, <<4, 4, 8, 12>>, <<8, 4, 12, 12>>, <<0, 12, 4, 16>>}

NmsScoreRows == {<<2, 1, 0, -1, -2>>, <<-2, -1, 0, 1, 2>>}

NmsBoxlists ==
    UNION {{[j \in 1..n |-> Entry(boxes[j], [objectness |-> Sigmoid(row[((j - 1) % 5) + 1])],
                                  1, 1, j)] :
               boxes \in [1..n -> NmsCatalog], row \in NmsScoreRows} :
           n \in 1..MaxNmsBoxes}

InitNms ==
    /\ RpnIdle
    /\ EngIdle
    /\ output_folder = FALSE
    /\ dataset_len = 0
    /\ epc = [p \in Procs |-> "idle"]
    /\ nms \in {[called |-> FALSE, k |-> k, t_lo |-> t[1], t_hi |-> t[2]] :
                   k \in 1..MaxTopN, t \in {<<3, 4>>, <<3, 7>>, <<4, 7>>}}
    /\ TrainIdle
    /\ ShapeIdle

RunNms ==
    /\ ~nms.called
    /\ "k" \in DOMAIN nms
    /\ \E boxlist \in NmsBoxlists :
          nms' = [called |-> TRUE, k |-> nms.k, t_lo |-> nms.t_lo, t_hi |-> nms.t_hi,
                  boxlist |-> boxlist,
                  kept_lo |-> CallBoxlistNms(boxlist, nms.t_lo, nms.k),
                  kept_hi |-> CallBoxlistNms(boxlist, nms.t_hi, nms.k)]
    /\ UNCHANGED <<rpnVars, engVars, trainVars, shapeVars>>

NextNms == RunNms

SpecNms == InitNms /\ [][NextNms]_vars

-----------------------------------------------------------------------------
(* engine/trainer.py: do_train.  The model, the optimizer, the scheduler and the  *)
(* losses do not bear on the checkpoints and are left out.  The data loader       *)
(* (maskrcnn_benchmark/data) is either a sized loader, which yields               *)
(* len(data_loader) batches, or a loader over an iteration-based sampler, which   *)
(* is built with the starting iteration and yields the batches that remain up to  *)
(* len(data_loader).                                                               *)

\* the batches the data loader yields when it is iterated
LoaderBatches ==
    IF loader = "sized" THEN max_iter
    ELSE Max(0, max_iter - start_iter)

\* checkpointer.save("model_{:07d}".format(iteration), **arguments): the name is
\* keyed by the number, which the format pads and never truncates
PeriodicCheckpoint(args) ==
    [final |-> FALSE, number |-> args.iteration, arguments |-> args]

\* checkpointer.save("model_final", **arguments)
FinalCheckpoint(args) ==
    [final |-> TRUE, number |-> 0, arguments |-> args]

\* if iteration % checkpoint_period == 0
SavesPeriodic(i) == i % checkpoint_period = 0

\* if iteration == max_iter
SavesFinal(i) == i = max_iter

\* one pass of the loop body
TrainStep ==
    /\ tpc = "loop"
    /\ yielded < LoaderBatches
    /\ LET index == start_iter + yielded      \* enumerate(data_loader, start_iter)
           i == index + 1                     \* iteration = iteration + 1
           arguments == [iteration |-> i]     \* arguments["iteration"] = iteration
       IN  /\ iteration' = i
           /\ checkpoints' = checkpoints
                \o (IF SavesPeriodic(i) THEN <<PeriodicCheckpoint(arguments)>> ELSE <<>>)
                \o (IF SavesFinal(i) THEN <<FinalCheckpoint(arguments)>> ELSE <<>>)
    /\ yielded' = yielded + 1
    /\ UNCHANGED <<checkpoint_period, loader, max_iter, start_iter, tpc>>
    /\ UNCHANGED <<rpnVars, engVars, nmsVars, shapeVars>>

\* the loader is exhausted: the log of total_training_time / (max_iter)
TrainEnd ==
    /\ tpc = "loop"
    /\ yielded = LoaderBatches
    /\ tpc' = IF max_iter = 0 THEN "ZeroDivisionError" ELSE "done"
    /\ UNCHANGED <<checkpoint_period, loader, max_iter, start_iter, iteration,
                   yielded, checkpoints>>
    /\ UNCHANGED <<rpnVars, engVars, nmsVars, shapeVars>>

InitTrain ==
    /\ RpnIdle
    /\ EngIdle
    /\ output_folder = FALSE
    /\ dataset_len = 0
    /\ epc = [p \in Procs |-> "idle"]
    /\ NmsIdle
    /\ checkpoint_period \in 1..MaxIter
    /\ loader \in {"sized", "iteration_based"}
    /\ max_iter \in 0..MaxIter
    /\ start_iter \in 0..MaxIter
    /\ iteration = start_iter
    /\ yielded = 0
    /\ checkpoints = <<>>
    /\ tpc = "loop"
    /\ ShapeIdle

NextTrain == TrainStep \/ TrainEnd

SpecTrain == InitTrain /\ [][NextTrain]_vars

-----------------------------------------------------------------------------
(* rpn/inference.py on arguments of any shape: forward and                        *)
(* forward_for_single_feature_map followed on the shapes of their tensors alone.  *)
(* A level's shapes are those of its objectness tensor (o_N, A, H, W), with       *)
(* HW = H*W, and of its regression tensor (b_N, b_C, H, W); anchors_N is the      *)
(* number of images of the anchors argument, each with one box per anchor of the  *)
(* level.  The top-k indices depend on the scores: any index can be among them.   *)

\* layer.view(N, -1, C, H, W) in permute_and_flatten (rpn/utils.py): the elements
\* must fill whole blocks of N*C*H*W
ViewFits(numel, n, c, hw) == numel % (n * c * hw) = 0

\* box_regression after permute_and_flatten(box_regression, N, A, 4, H, W): the
\* size of its second dimension
RegressionRows(lv) == (lv.b_N * lv.b_C * lv.HW) \div (lv.o_N * 4)

\* num_anchors = A * H * W
NumAnchors(lv) == lv.A * lv.HW

\* concat_anchors.reshape(N, -1, 4): the boxes of all images must split into N rows
AnchorsFit(lv) == (shape_call.anchors_N * NumAnchors(lv)) % lv.o_N = 0

\* the size of the second dimension of concat_anchors.reshape(N, -1, 4)
AnchorRows(lv) == (shape_call.anchors_N * NumAnchors(lv)) \div lv.o_N

\* the line of forward_for_single_feature_map that raises on a level of these
\* shapes when the largest top-k index is m, or 0 when none does
RaisingLine(lv, m) ==
    IF ~ViewFits(lv.b_N * lv.b_C * lv.HW, lv.o_N, 4, lv.HW) THEN 92
    ELSE IF ~TopkDumpOk([i \in 1..lv.o_N |-> i]) THEN 105
    ELSE IF m >= RegressionRows(lv) THEN 111
    ELSE IF ~AnchorsFit(lv) THEN 115
    ELSE IF m >= AnchorRows(lv) THEN 115
    ELSE 0

\* for im_i, (proposal, score, im_shape) in enumerate(zip(proposals, objectness,
\* image_shapes)): the number of images whose box list is built
PerImageCount(lv) == Min(lv.o_N, shape_call.anchors_N)

\* boxlists = list(zip(*sampled_boxes)): the number of images of the result
RECURSIVE ZippedImages(_)
ZippedImages(counts) ==
    IF Len(counts) = 1 THEN counts[1]
    ELSE Min(Head(counts), ZippedImages(Tail(counts)))

\* one call of forward_for_single_feature_map, on the next level
ShapeLevel ==
    /\ shape_outcome.kind = "running"
    /\ Len(shape_levels) < Len(shape_call.levels)
    /\ LET lv == shape_call.levels[Len(shape_levels) + 1]
           pre_nms_top_n == Min(shape_call.pre_nms_top_n, NumAnchors(lv))
       IN  \E m \in (pre_nms_top_n - 1)..(NumAnchors(lv) - 1) :
              IF RaisingLine(lv, m) # 0
              THEN /\ shape_outcome' = [kind |-> "raised", line |-> RaisingLine(lv, m),
                                        images |-> 0]
                   /\ UNCHANGED shape_levels
              ELSE /\ shape_levels' = Append(shape_levels, PerImageCount(lv))
                   /\ UNCHANGED shape_outcome
    /\ UNCHANGED shape_call
    /\ UNCHANGED <<rpnVars, engVars, nmsVars, trainVars>>

\* the rest of forward: the levels' box lists are zipped per image and returned
ShapeReturn ==
    /\ shape_outcome.kind = "running"
    /\ Len(shape_levels) = Len(shape_call.levels)
    /\ shape_outcome' = [kind |-> "returned", line |-> 205,
                         images |-> ZippedImages(shape_levels)]
    /\ UNCHANGED <<shape_call, shape_levels>>
    /\ UNCHANGED <<rpnVars, engVars, nmsVars, trainVars>>

\* the shapes a level can have: level 1 has two anchors per location, level 2 one;
\* the regression tensor has 4 channels per anchor, or two more
LevelShapes(l) ==
    LET a == IF l = 1 THEN 2 ELSE 1
    IN  [o_N : 1..MaxBatch, A : {a}, HW : {1},
         b_N : 1..(2 * MaxBatch), b_C : {4 * a, 4 * a + 2}]

ShapeCalls ==
    {[levels |-> lvls, anchors_N |-> n, pre_nms_top_n |-> k] :
        lvls \in {<<a>> : a \in LevelShapes(1)}
                 \cup {<<a, b>> : a \in LevelShapes(1), b \in LevelShapes(2)},
        n \in 1..(2 * MaxBatch), k \in {1, 2}}

InitShapes ==
    /\ RpnIdle
    /\ EngIdle
    /\ output_folder = FALSE
    /\ dataset_len = 0
    /\ epc = [p \in Procs |-> "idle"]
    /\ NmsIdle
    /\ TrainIdle
    /\ shape_call \in ShapeCalls
    /\ shape_levels = <<>>
    /\ shape_outcome = [kind |-> "running", line |-> 0, images |-> 0]

NextShapes == ShapeLevel \/ ShapeReturn

SpecShapes == InitShapes /\ [][NextShapes]_vars

-----------------------------------------------------------------------------
(* Properties of the cross-level aggregation (checked under Spec) *)

\* forward is past select_over_all_levels
Aggregated == pc \in {"gt", "done"}

\* the configuration asks for the batch-wide budget
BatchWide == cfg.training /\ cfg.fpn_post_nms_per_batch

\* the candidates of the images: the levels' box lists, concatenated
Candidates == CatLevels(sampled_boxes)

Score(e) == e.fields.objectness

\* s holds entries of t, each once, in t's order
IsSubSeqOf(s, t) ==
    \E f \in [DOMAIN s -> DOMAIN t] :
        /\ \A a \in DOMAIN s : s[a] = t[f[a]]
        /\ \A a, b \in DOMAIN s : a < b => f[a] < f[b]

CardinalityBound ==
    IF BatchWide THEN SumLen(selected) <= cfg.fpn_post_nms_top_n
    ELSE \A i \in 1..N : Len(selected[i]) <= cfg.fpn_post_nms_top_n

\* C1 as stated: after the aggregation, in every configuration, each image holds
\* at most fpn_post_nms_top_n boxes (per-image mode) or the batch does (batch-wide
\* mode).
C1_AsStated == Aggregated => CardinalityBound

\* C1, amended: the same bound, for the calls with more than one level; with one
\* level forward does not select, and a level's post_nms_top_n boxes pass through.
C1_CardinalityBound == (Aggregated /\ num_levels > 1) => CardinalityBound

\* the batch-wide budget has cut a batch of two levels down to fpn_post_nms_top_n
C1_Witness ==
    /\ pc = "gt"
    /\ num_levels = 2
    /\ BatchWide
    /\ SumLen(Candidates) > cfg.fpn_post_nms_top_n
    /\ SumLen(selected) = cfg.fpn_post_nms_top_n

\* the kept boxes are top-scoring among the batch's candidates, and each image
\* keeps its own boxes, in their order
BatchSelection ==
    /\ SumLen(selected) = Min(cfg.fpn_post_nms_top_n, SumLen(Candidates))
    /\ \A i \in 1..N :
          /\ IsSubSeqOf(selected[i], Candidates[i])
          /\ \A e \in Range(selected[i]) : e.img = i
    /\ \A i, j \in 1..N :
          \A e \in Range(selected[i]) : \A d \in Range(Candidates[j]) :
              d \notin Range(selected[j]) => Score(d) <= Score(e)

\* the kept boxes are the first of the pooled candidates in descending score,
\* equal scores in the order of the flattened index
StableBatchSelection ==
    LET pool == Flatten(Candidates)
        order == SortDesc(ObjectnessOf(pool), DOMAIN pool)
        k == Min(cfg.fpn_post_nms_top_n, Len(pool))
    IN  {pool[order[r]] : r \in 1..k} = UNION {Range(selected[i]) : i \in 1..N}

\* C2 as stated: in training with fpn_post_nms_per_batch and several levels, exactly
\* min(fpn_post_nms_top_n, candidates) boxes are kept, the highest-scoring ones of
\* the pool with ties broken by the flattened index, each in its image.
C2_AsStated ==
    (Aggregated /\ num_levels > 1 /\ BatchWide) => (BatchSelection /\ StableBatchSelection)

\* C2, amended: the same, without an order among equal scores: of the candidates
\* that tie at the cut, which are kept is not fixed.
C2_BatchSelection == (Aggregated /\ num_levels > 1 /\ BatchWide) => BatchSelection

\* the budget was shared unevenly: it cut the batch, and the images keep
\* different numbers of boxes
C2_Witness ==
    /\ pc = "gt"
    /\ num_levels = 2
    /\ BatchWide
    /\ SumLen(Candidates) > cfg.fpn_post_nms_top_n
    /\ Len(selected[1]) > Len(selected[2]) + 1

\* image i's boxes are top-scoring among image i's candidates
ImageSelection(i) ==
    /\ Len(selected[i]) = Min(cfg.fpn_post_nms_top_n, Len(Candidates[i]))
    /\ \A a, b \in DOMAIN selected[i] : a # b => selected[i][a] # selected[i][b]
    /\ Range(selected[i]) \subseteq Range(Candidates[i])
    /\ \A e \in Range(selected[i]) : \A d \in Range(Candidates[i]) :
          d \notin Range(selected[i]) => Score(d) <= Score(e)

\* C3: in inference, or in training with the per-image policy, with several levels,
\* each image keeps min(fpn_post_nms_top_n, its candidates) boxes, the highest-scoring
\* of its own candidates, whatever the other images hold.
C3_PerImageSelection ==
    (Aggregated /\ num_levels > 1 /\ ~BatchWide) => \A i \in 1..N : ImageSelection(i)

\* an image was cut to its budget and keeps a box that scores below a box another
\* image had to drop
C3_Witness ==
    /\ pc = "gt"
    /\ num_levels = 2
    /\ ~BatchWide
    /\ \E i, j \in 1..N :
          /\ i # j
          /\ Len(Candidates[i]) > cfg.fpn_post_nms_top_n
          /\ \E e \in Range(selected[i]) : \E d \in Range(Candidates[j]) :
                d \notin Range(selected[j]) /\ Score(d) > Score(e)

\* the ground-truth boxes of image i as they are appended
GtEntries(i) ==
    [j \in DOMAIN targets.lists[i] |->
        [bbox |-> targets.lists[i][j].bbox, fields |-> [objectness |-> 1000],
         img |-> i, level |-> 0, idx |-> j]]

\* C4: in training each image's output is its selected proposals followed by its
\* ground-truth boxes, which carry objectness 1.0 and no field of the target;
\* outside training the output holds no ground-truth box, targets or not.
C4_GtOnlyInTraining ==
    pc = "done" =>
        /\ cfg.training /\ targets.given =>
              \A i \in 1..N : boxlists[i] = selected[i] \o GtEntries(i)
        /\ cfg.training /\ ~targets.given => boxlists = selected
        /\ ~cfg.training =>
              /\ boxlists = selected
              /\ \A i \in 1..N : \A e \in Range(boxlists[i]) : e.level > 0

\* a training call has returned an image's proposals with its two ground-truth
\* boxes behind them
C4_Witness ==
    /\ pc = "done"
    /\ cfg.training
    /\ targets.given
    /\ Len(selected[2]) > 0
    /\ Len(boxlists[2]) = Len(selected[2]) + 2
    /\ boxlists[2][Len(boxlists[2])].fields = [objectness |-> 1000]

-----------------------------------------------------------------------------
(* Properties of the per-level decoder *)

\* the scores of image i at level l, by anchor index
ScoresAt(l, i) == SigmoidRow(objectness[l][i])

\* the box of anchor index a of image i at level l: decoded, then clipped
ClippedAt(l, i, a) ==
    ClipBox(Decode(box_regression[l][i][a], Anchor(l, a)), ImageShape)

\* topk_idx[l][i] holds the right number of distinct indices, the highest-scoring
\* ones, in descending order of score
TopKSelection(l, i) ==
    LET idx == topk_idx[l][i]
        sc == ScoresAt(l, i)
    IN  /\ Len(idx) = Min(cfg.pre_nms_top_n, Len(sc))
        /\ \A a, b \in DOMAIN idx : a < b => idx[a] # idx[b] /\ sc[idx[a]] >= sc[idx[b]]
        /\ \A u \in DOMAIN sc : \A a \in DOMAIN idx :
              u \notin Range(idx) => sc[u] <= sc[idx[a]]
        /\ cfg.pre_nms_top_n >= Len(sc) => Range(idx) = DOMAIN sc

\* equal scores are taken, and ordered, by ascending index
TopKStable(l, i) ==
    LET idx == topk_idx[l][i]
        sc == ScoresAt(l, i)
    IN  /\ \A a, b \in DOMAIN idx : (a < b /\ sc[idx[a]] = sc[idx[b]]) => idx[a] < idx[b]
        /\ \A u \in DOMAIN sc : \A a \in DOMAIN idx :
              (u \notin Range(idx) /\ sc[u] = sc[idx[a]]) => idx[a] < u

\* C5 as stated: for each image the pre-filter selects min(pre_nms_top_n, A*H*W)
\* indices, the highest-scoring, in descending order with ties in index order; a
\* permutation of all indices when pre_nms_top_n is at least the number of anchors.
C5_AsStated ==
    \A l \in DOMAIN topk_idx : \A i \in 1..N : TopKSelection(l, i) /\ TopKStable(l, i)

\* C5, amended: the same, without an order among equal scores: torch.topk fixes
\* neither which of the indices that tie at the cut are taken nor their order.
C5_TopKSelection ==
    \A l \in DOMAIN topk_idx : \A i \in 1..N : TopKSelection(l, i)

\* with pre_nms_top_n at least the four anchors, the first image's indices are all
\* the anchors reordered by score, and the second image's selection differs
C5_Witness ==
    /\ Len(topk_idx) = 1
    /\ N = 2
    /\ cfg.pre_nms_top_n >= 4
    /\ objectness[1][1] = <<2, -2, 1, -1>>
    /\ topk_idx[1][1] = <<1, 3, 4, 2>>
    /\ topk_idx[1][2] # topk_idx[1][1]

\* entry e of image i's collection was decoded from the delta and the anchor of
\* its anchor index, which the pre-filter selected, and carries that index's score
FromOneAnchor(e, i) ==
    /\ e.img = i
    /\ e.level \in DOMAIN topk_idx
    /\ e.idx \in Range(topk_idx[e.level][i])
    /\ e.bbox = ClippedAt(e.level, i, e.idx)
    /\ Score(e) = ScoresAt(e.level, i)[e.idx]

\* C6: every box of the per-level results, of the selection over the levels and of
\* the value forward returns (the ground-truth boxes aside) was decoded from the
\* delta and the anchor of one anchor index of its image, and its objectness is
\* the score of that index.
C6_IndexCorrespondence ==
    /\ \A l \in DOMAIN sampled_boxes : \A i \in 1..N :
          \A e \in Range(sampled_boxes[l][i]) : e.level = l /\ FromOneAnchor(e, i)
    /\ Aggregated =>
          \A i \in 1..N : \A e \in Range(selected[i]) : FromOneAnchor(e, i)
    /\ pc = "done" =>
          \A i \in 1..N : \A e \in Range(boxlists[i]) : e.level > 0 => FromOneAnchor(e, i)

\* a returned image whose pre-filter put anchor 2 before anchor 1 and whose
\* first delta shrinks: the output holds anchor 2's box, and a box of level 2
C6_Witness ==
    /\ pc = "done"
    /\ num_levels = 2
    /\ \E i \in 1..N :
          /\ topk_idx[1][i] = <<2, 1>>
          /\ box_regression[1][i] = <<Shrink, Zero>>
          /\ \E e \in Range(boxlists[i]) : e.level = 1 /\ e.idx = 2
          /\ \E e \in Range(boxlists[i]) : e.level = 2

\* the decoder was called for a level
Called == Len(topk_idx) >= 1

\* the boxes of image i's top-k candidates at level l do not overlap
NonOverlapping(l, i) ==
    \A a, b \in Range(topk_idx[l][i]) :
        a # b => Intersection(ClippedAt(l, i, a), ClippedAt(l, i, b)) = 0

\* the result of level l: per image at most post_nms_top_n boxes in descending
\* objectness, and with non-overlapping boxes and min_size 0 exactly the
\* min(post_nms_top_n, pre_nms_top_n, anchors) highest-scoring anchors
LevelResult(l) ==
    /\ Len(sampled_boxes[l]) = N
    /\ \A i \in 1..N :
          LET out == sampled_boxes[l][i]
              sc == ScoresAt(l, i)
          IN  /\ Len(out) <= cfg.post_nms_top_n
              /\ \A a, b \in DOMAIN out : a < b => Score(out[a]) >= Score(out[b])
              /\ (NonOverlapping(l, i) /\ cfg.min_size = 0) =>
                    /\ Len(out) = Min(cfg.post_nms_top_n, Min(cfg.pre_nms_top_n, Len(sc)))
                    /\ \A a, b \in DOMAIN out : a # b => out[a].idx # out[b].idx
                    /\ \A e \in Range(out) : Score(e) = sc[e.idx]
                    /\ \A u \in DOMAIN sc : \A e \in Range(out) :
                          (\A d \in Range(out) : d.idx # u) => sc[u] <= Score(e)

\* C7 as stated: for one level the decoder returns one collection per image of at
\* most post_nms_top_n boxes ranked by objectness, which with non-overlapping boxes
\* and min_size 0 are the min(post_nms_top_n, pre_nms_top_n, anchors) highest-scoring
\* anchors in score order.
C7_AsStated == Called => (Len(sampled_boxes) >= 1 /\ LevelResult(1))

\* what holds of the code: the same of every result the decoder does return (it
\* returns none for a batch of one image)
C7_WhenReturned == Len(sampled_boxes) >= 1 => (N >= 2 /\ LevelResult(1))

\* scores <<881, 119, 731, 269>> with post_nms_top_n = 2 give anchor 1, anchor 3
C7_ScenarioReached ==
    /\ Len(sampled_boxes) = 1
    /\ cfg.post_nms_top_n = 2
    /\ cfg.min_size = 0
    /\ objectness[1][1] = <<2, -2, 1, -1>>
    /\ NonOverlapping(1, 1)
    /\ Len(sampled_boxes[1][1]) = 2
    /\ [j \in 1..2 |-> sampled_boxes[1][1][j].idx] = <<1, 3>>

WithinImage(box) ==
    /\ 0 <= box[1] /\ box[1] <= box[3] /\ box[3] <= ImageShape[1]
    /\ 0 <= box[2] /\ box[2] <= box[4] /\ box[4] <= ImageShape[2]

BigEnough(box) == Width(box) >= cfg.min_size /\ Height(box) >= cfg.min_size

\* entry e of the output ranks above the j-th candidate of topk_idx[l][i]
RanksAbove(e, l, i, j) ==
    LET idx == topk_idx[l][i]
        sj == ScoresAt(l, i)[idx[j]]
    IN  \/ Score(e) > sj
        \/ Score(e) = sj /\ \E a \in DOMAIN idx : a < j /\ idx[a] = e.idx

\* the output of level l for image i is that of clip, then filter, then NMS
ClipFilterNms(l, i) ==
    LET idx == topk_idx[l][i]
        out == sampled_boxes[l][i]
    IN  /\ \A e \in Range(out) :
              /\ WithinImage(e.bbox)
              /\ BigEnough(e.bbox)
              /\ e.bbox = ClippedAt(l, i, e.idx)
        /\ \A j \in DOMAIN idx :
              LET box == ClippedAt(l, i, idx[j])
              IN  (BigEnough(box) /\ \A e \in Range(out) : e.idx # idx[j]) =>
                    \/ \E e \in Range(out) :
                          RanksAbove(e, l, i, j) /\ ~IoULeq(e.bbox, box, cfg.nms_thresh)
                    \/ /\ Len(out) = cfg.post_nms_top_n
                       /\ \A e \in Range(out) : RanksAbove(e, l, i, j)

\* C8: the decoder clips, then removes the small boxes, then runs NMS: every box of
\* the output lies in the image with width and height at least min_size, and every
\* candidate whose clipped box is large enough (a zero-area box, with min_size 0) is
\* in the output unless a kept box that ranks above it overlaps it by more than
\* nms_thresh or post_nms_top_n boxes that rank above it were kept; a removed box
\* suppresses nothing.
C8_ClipFilterNms ==
    \A l \in DOMAIN sampled_boxes : \A i \in 1..N : ClipFilterNms(l, i)

\* the top-ranked candidate is smaller than min_size and is removed, and a
\* candidate it overlaps by more than nms_thresh is kept
C8_Witness ==
    /\ Len(sampled_boxes) = 1
    /\ cfg.min_size = 3
    /\ \E i \in 1..N :
          LET idx == topk_idx[1][i]
              out == sampled_boxes[1][i]
          IN  /\ Len(idx) >= 2
              /\ ~BigEnough(ClippedAt(1, i, idx[1]))
              /\ \A e \in Range(out) : e.idx # idx[1]
              /\ \E e \in Range(out) :
                    ~IoULeq(ClippedAt(1, i, idx[1]), e.bbox, cfg.nms_thresh)

\* a box decoded fully outside the image is clipped to zero area and kept
C8_ZeroAreaKept ==
    /\ Len(sampled_boxes) = 1
    /\ cfg.min_size = 0
    /\ \E i \in 1..N : \E e \in Range(sampled_boxes[1][i]) :
          /\ Area(e.bbox) = 0
          /\ Decode(box_regression[1][i][e.idx], Anchor(1, e.idx))[3] < 0

-----------------------------------------------------------------------------
(* Properties of boxlist_nms (checked under SpecNms) *)

\* C9 as stated: on one input, ranking field and keep limit, NMS with a strictly
\* larger IoU threshold never keeps fewer boxes than with a smaller threshold.
C9_AsStated == nms.called => Len(nms.kept_hi) >= Len(nms.kept_lo)

\* C9, amended: the same for a keep limit of at most 2 or a collection of at most
\* 3 boxes.  From 4 boxes and a limit of 3 on, a box that only the larger threshold
\* accepts can suppress two lower-ranked boxes that the smaller threshold keeps.
C9_MonotoneSmall ==
    (nms.called /\ (nms.k <= 2 \/ Len(nms.boxlist) <= 3)) =>
        Len(nms.kept_hi) >= Len(nms.kept_lo)

\* on three boxes the larger threshold keeps a box more than the smaller one
C9_Witness ==
    /\ nms.called
    /\ Len(nms.boxlist) = 3
    /\ nms.k = 3
    /\ Len(nms.kept_lo) = 2
    /\ Len(nms.kept_hi) = 3

-----------------------------------------------------------------------------
(* Properties of the cross-process accumulation (checked under SpecGather) *)

\* process q has handed its results to all_gather
HasSubmitted(q) ==
    epc[q] \notin {"compute", "synchronize", "accumulate", "ZeroDivisionError"}

\* process p has left all_gather
PastGather(p) == epc[p] \in {"accumulated", "returned", "IndexError"}

\* the processes whose results hold image id
Holders(id) == {q \in Procs : id \in DOMAIN local_pred[q]}

\* the list is the merge of the processes' results: one prediction per image id
\* that a process holds, that of the highest rank holding it
IsMergeOfAll(list) ==
    /\ {list[j].id : j \in DOMAIN list} = UNION {DOMAIN local_pred[q] : q \in Procs}
    /\ \A a, b \in DOMAIN list : a # b => list[a].id # list[b].id
    /\ \A j \in DOMAIN list :
          /\ list[j].by \in Holders(list[j].id)
          /\ \A q \in Holders(list[j].id) : q <= list[j].by

\* C10: no process leaves _accumulate_predictions_from_multiple_gpus before every
\* process has handed its results to all_gather; the main process returns the merge
\* of all results; every other process returns None, writes no file and runs no
\* evaluation.
C10_BarrierThenMerge ==
    /\ \A p \in Procs : PastGather(p) =>
          \A q \in Procs : HasSubmitted(q) /\ gathered[q].data = local_pred[q]
    /\ \A p \in Procs : ret[p].returned =>
          IF p = 0 THEN ~ret[p].none /\ IsMergeOfAll(ret[p].predictions)
          ELSE ret[p].none /\ ret[p].predictions = <<>>
    /\ \A p \in Procs : p # 0 => ~saved[p] /\ ~evaluated[p]
    /\ \A p \in Procs : (saved[p] \/ evaluated[p]) => ret[p].returned

\* every process has returned; the main process merged results of two processes,
\* saved them and evaluated; another process returned None while the main process
\* had not yet left all_gather
C10_Witness ==
    /\ \A p \in Procs : epc[p] = "returned"
    /\ saved[0]
    /\ evaluated[0]
    /\ \E a, b \in DOMAIN ret[0].predictions :
          ret[0].predictions[a].by # ret[0].predictions[b].by
    /\ \A p \in Procs : p # 0 => ret[p].returned /\ ret[p].none

\* the image ids the processes handed to all_gather
GatheredIds == UNION {DOMAIN gathered[q].data : q \in Procs}

\* ids is the full set 0..n-1 of its n elements
IsFullRange(ids) == ids = 0..(Cardinality(ids) - 1)

\* the list has one prediction per gathered image id, in ascending image-id order
OnePerGatheredId(list) ==
    /\ Len(list) = Cardinality(GatheredIds)
    /\ {list[j].id : j \in DOMAIN list} = GatheredIds
    /\ \A a, b \in DOMAIN list : a < b => list[a].id < list[b].id

\* the main process left all_gather with a result: the warning was logged exactly
\* when the gathered ids are not a full range, and all predictions are returned
WarnedAndReturned ==
    /\ epc[0] # "IndexError"
    /\ ret[0].returned
    /\ ~ret[0].none
    /\ warned <=> ~IsFullRange(GatheredIds)
    /\ OnePerGatheredId(ret[0].predictions)

\* C11 as stated: for every gathered set of results, once the main process has left
\* all_gather it has raised no error, it has logged the warning exactly when the
\* gathered image ids are not the full set 0..n-1, and it returns one prediction per
\* gathered image id in ascending image-id order.
C11_AsStated == PastGather(0) => WarnedAndReturned

\* C11, on the gathered sets that hold an image: the warning is logged exactly when
\* the ids are not the full set 0..n-1 and all predictions are returned in ascending
\* order; when no process gathered any image the main process raises an IndexError
\* at image_ids[-1], returns nothing and logs nothing.
C11_WhenNotEmpty ==
    PastGather(0) =>
        IF GatheredIds = {}
        THEN epc[0] = "IndexError" /\ ~ret[0].returned /\ ~warned
        ELSE WarnedAndReturned

\* the main process returned the predictions of a set with a missing image, gathered
\* from two processes, and logged the warning
C11_WarningReached ==
    /\ epc[0] = "returned"
    /\ warned
    /\ ~IsFullRange(GatheredIds)
    /\ Len(ret[0].predictions) = 2
    /\ ret[0].predictions[1].by # ret[0].predictions[2].by

\* the main process returned a full range of predictions without a warning
C11_NoWarningReached ==
    /\ epc[0] = "returned"
    /\ ~warned
    /\ Len(ret[0].predictions) = MaxImageId + 1

-----------------------------------------------------------------------------
(* Properties of the checkpoints of do_train (checked under SpecTrain) *)

\* the iterations the loop has executed
Executed == {start_iter + j : j \in 1..yielded}

\* the loop has ended
LoopEnded == tpc \in {"done", "ZeroDivisionError"}

\* the periodic checkpoints and the final checkpoints saved so far
PeriodicSaved == {j \in DOMAIN checkpoints : ~checkpoints[j].final}
FinalSaved == {j \in DOMAIN checkpoints : checkpoints[j].final}

\* at every executed multiple of checkpoint_period, and at no other iteration, one
\* checkpoint is saved under that iteration's number, holding that iteration
PeriodicSaves ==
    /\ \A i \in Executed : i % checkpoint_period = 0 =>
          Cardinality({j \in PeriodicSaved : checkpoints[j].number = i}) = 1
    /\ \A j \in PeriodicSaved :
          /\ checkpoints[j].number \in Executed
          /\ checkpoints[j].number % checkpoint_period = 0
          /\ checkpoints[j].arguments.iteration = checkpoints[j].number

\* model_final is saved at no iteration before the last one of the loop, and a loop
\* that has ended after an iteration has saved it exactly once, at its last iteration
FinalAtLastIteration ==
    /\ \A j \in FinalSaved :
          checkpoints[j].arguments.iteration = start_iter + LoaderBatches
    /\ (LoopEnded /\ yielded >= 1) => Cardinality(FinalSaved) = 1

\* C12 as stated: for every start_iter and every len(data_loader), a checkpoint keyed
\* by the iteration number and holding that iteration is saved at every executed
\* multiple of checkpoint_period, and model_final is saved exactly once, at the last
\* iteration the loop executes and at no earlier one.
C12_AsStated == PeriodicSaves /\ FinalAtLastIteration

\* C12, the periodic checkpoints alone: they are saved at every executed multiple of
\* checkpoint_period, keyed by and holding the iteration number, whatever the loader.
C12_PeriodicSaves == PeriodicSaves

\* C12, what decides the final checkpoint: model_final is saved at the executed
\* iteration whose number is len(data_loader), if there is one, and at no other.
C12_FinalAtMaxIter ==
    /\ \A j \in FinalSaved :
          /\ checkpoints[j].arguments.iteration = max_iter
          /\ max_iter \in Executed
    /\ max_iter \in Executed => Cardinality(FinalSaved) = 1

\* C12 when the iterations end at len(data_loader) (a loader over an iteration-based
\* sampler, or a sized loader started at iteration 0): model_final is saved at the
\* last iteration of the loop and at no earlier one.
C12_WhenEndingAtMaxIter ==
    (loader = "iteration_based" \/ start_iter = 0) => FinalAtLastIteration

\* a resumed training over an iteration-based sampler ended with a periodic
\* checkpoint and then model_final, saved at its last iteration
C12_ResumedReached ==
    /\ tpc = "done"
    /\ loader = "iteration_based"
    /\ start_iter >= 1
    /\ yielded >= 2
    /\ Cardinality(PeriodicSaved) >= 1
    /\ Cardinality(FinalSaved) = 1
    /\ checkpoints[Len(checkpoints)].final
    /\ checkpoints[Len(checkpoints)].arguments.iteration = iteration

-----------------------------------------------------------------------------
(* Properties of forward on malformed arguments (checked under SpecShapes) *)

\* the level's regression channel count is not a multiple of 4
BadChannels(lv) == lv.b_C % 4 # 0

\* the level's batch size differs between objectness, regression and anchors
MismatchedN(lv) == lv.o_N # lv.b_N \/ lv.o_N # shape_call.anchors_N

\* the call's arguments are malformed
Malformed ==
    \E l \in DOMAIN shape_call.levels :
        BadChannels(shape_call.levels[l]) \/ MismatchedN(shape_call.levels[l])

\* per-image work has started for some level
PerImageWorkStarted == \E l \in DOMAIN shape_levels : shape_levels[l] >= 1

\* C13 as stated: a call with a regression channel count that is not a multiple of
\* 4, or with a batch size N that differs between objectness, regression and
\* anchors, starts no per-image work for any level and is never processed to a
\* returned result; once it has stopped, it has raised an error.
C13_AsStated ==
    Malformed =>
        /\ ~PerImageWorkStarted
        /\ shape_outcome.kind # "returned"
        /\ (shape_outcome.kind # "running" => shape_outcome.kind = "raised")

\* C13, what holds: an error of a level is raised before that level's own per-image
\* work, and a call raises only if its arguments are malformed or its batch holds a
\* single image (the dump of topk_idx[1,:]).
C13_RaisedOnlyWhenMalformed ==
    shape_outcome.kind = "raised" =>
        /\ Len(shape_levels) < Len(shape_call.levels)
        /\ \/ Malformed
           \/ shape_call.levels[Len(shape_levels) + 1].o_N < 2

\* C13, what holds of the channel count alone: a level whose batch sizes agree and
\* whose regression channel count is not a multiple of 4 is never processed
C13_BadChannelsNotProcessed ==
    \A l \in DOMAIN shape_call.levels :
        (BadChannels(shape_call.levels[l]) /\ ~MismatchedN(shape_call.levels[l]))
            => Len(shape_levels) < l

\* a call whose anchors hold twice the images of its tensors is returned
C13_MismatchReturned ==
    /\ shape_outcome.kind = "returned"
    /\ Len(shape_call.levels) = 2
    /\ \A l \in DOMAIN shape_call.levels :
          /\ ~BadChannels(shape_call.levels[l])
          /\ shape_call.levels[l].o_N = 2
          /\ shape_call.levels[l].b_N = 2
    /\ shape_call.anchors_N = 4
    /\ shape_outcome.images = 2

\* a call raises on its second level after the per-image work of its first level
C13_RaisedAfterWork ==
    /\ shape_outcome.kind = "raised"
    /\ shape_outcome.line = 92
    /\ Len(shape_levels) = 1
    /\ shape_levels[1] = 2
    /\ ~BadChannels(shape_call.levels[1])
    /\ ~MismatchedN(shape_call.levels[1])
    /\ BadChannels(shape_call.levels[2])

\* a well-formed call of two images and two levels is returned
C13_WellFormedReturned ==
    /\ ~Malformed
    /\ shape_outcome.kind = "returned"
    /\ Len(shape_levels) = 2
    /\ shape_outcome.images = 2

====
